---- MODULE Spec2Model ----
(***************************************************************************)
(* Model of the postal-code availability pipeline of ZMap_Dev:             *)
(*   Scripts/zmap_postal_code_availability.py  (load, scan, aggregate)     *)
(*   Scripts/zmap_visualizing_response_rate.py (reload of the export and   *)
(*                                              direct fold)               *)
(* IPv4 addresses are 4-tuples of octets (TLC integers are 32 bit signed,  *)
(* so an address is never held as one integer).  Every network of the      *)
(* model has a prefix length of at least 8, so host enumeration only moves *)
(* the low 24 bits of an address.                                          *)
(***************************************************************************)
EXTENDS Integers, Sequences, FiniteSets, TLC

\* ------------------------------------------------------------------ bounds
\* Largest number of data rows of the input table.
MaxRows == 2
\* Largest value of the --max-networks argument (0 stands for "not given":
\* None and 0 are both falsy in the test at line 120).
MaxCap == 1
MaxExportRows == 4
MaxScans == 2
MaxBatches == 2

\* ------------------------------------------------- ipaddress: addresses
RECURSIVE Pow2(_)
Pow2(n) == IF n = 0 THEN 1 ELSE 2 * Pow2(n - 1)

\* The low 24 bits of an address, as an integer.
Low24(addr) == addr[2] * 65536 + addr[3] * 256 + addr[4]

\* addr + k, for k that stays inside the low 24 bits.
AddrPlus(addr, k) ==
    LET v == Low24(addr) + k
    IN  <<addr[1], v \div 65536, (v \div 256) % 256, v % 256>>

\* str(IPv4Address): dotted quad, decimal, no leading zeros.
IpStr(addr) ==
    ToString(addr[1]) \o "." \o ToString(addr[2]) \o "." \o
    ToString(addr[3]) \o "." \o ToString(addr[4])

\* str(IPv4Network): address/prefixlen.
NetStr(net) == IpStr(net.addr) \o "/" \o ToString(net.prefix)

\* addr in net (IPv4Address.__contains__ of a network).
InNetwork(addr, net) ==
    IF net.prefix >= 8
    THEN /\ addr[1] = net.addr[1]
         /\ Low24(addr) >= Low24(net.addr)
         /\ Low24(addr) < Low24(net.addr) + Pow2(32 - net.prefix)
    ELSE /\ addr[1] >= net.addr[1]
         /\ addr[1] < net.addr[1] + Pow2(8 - net.prefix)

Net(a, b, c, d, p) == [addr |-> <<a, b, c, d>>, prefix |-> p]

\* ipaddress._IPv4Constants._private_networks (CPython 3.11).
PrivateNetworks ==
    { Net(0, 0, 0, 0, 8), Net(10, 0, 0, 0, 8), Net(127, 0, 0, 0, 8),
      Net(169, 254, 0, 0, 16), Net(172, 16, 0, 0, 12), Net(192, 0, 0, 0, 29),
      Net(192, 0, 0, 170, 31), Net(192, 0, 2, 0, 24), Net(192, 168, 0, 0, 16),
      Net(198, 18, 0, 0, 15), Net(198, 51, 100, 0, 24), Net(203, 0, 113, 0, 24),
      Net(240, 0, 0, 0, 4), Net(255, 255, 255, 255, 32) }

\* ip.is_private
IsPrivate(addr) == \E n \in PrivateNetworks : InNetwork(addr, n)

\* ip.is_loopback: membership of 127.0.0.0/8.
IsLoopback(addr) == InNetwork(addr, Net(127, 0, 0, 0, 8))

\* ------------------------------------------------- ipaddress: networks
\* len(list(network.hosts())): a /32 yields its one address, a /31 both of
\* its addresses, every shorter prefix all addresses but the first and last.
NumHosts(net) ==
    IF net.prefix = 32 THEN 1
    ELSE IF net.prefix = 31 THEN 2
    ELSE Pow2(32 - net.prefix) - 2

\* The i-th (0-based) element of network.hosts(), in address order.
HostAt(net, i) ==
    IF net.prefix >= 31 THEN AddrPlus(net.addr, i) ELSE AddrPlus(net.addr, i + 1)

\* The lexical reading of a network string: the address and prefix length it
\* spells (a string without "/" spells a /32).  Strings outside the table do
\* not spell an address at all.
Lex(s) ==
    CASE s = "8.8.8.0/24"      -> [ok |-> TRUE, net |-> Net(8, 8, 8, 0, 24)]
      [] s = "8.8.8.0/30"      -> [ok |-> TRUE, net |-> Net(8, 8, 8, 0, 30)]
      [] s = "8.8.8.8/29"      -> [ok |-> TRUE, net |-> Net(8, 8, 8, 8, 29)]
      [] s = "8.8.8.1/24"      -> [ok |-> TRUE, net |-> Net(8, 8, 8, 1, 24)]
      [] s = "8.8.4.4"         -> [ok |-> TRUE, net |-> Net(8, 8, 4, 4, 32)]
      [] s = "8.8.4.4/32"      -> [ok |-> TRUE, net |-> Net(8, 8, 4, 4, 32)]
      [] s = "8.8.4.4/31"      -> [ok |-> TRUE, net |-> Net(8, 8, 4, 4, 31)]
      [] s = "192.168.1.0/24"  -> [ok |-> TRUE, net |-> Net(192, 168, 1, 0, 24)]
      [] s = "10.0.0.0/24"     -> [ok |-> TRUE, net |-> Net(10, 0, 0, 0, 24)]
      [] s = "127.0.0.0/30"    -> [ok |-> TRUE, net |-> Net(127, 0, 0, 0, 30)]
      [] s = "203.0.112.0/23"  -> [ok |-> TRUE, net |-> Net(203, 0, 112, 0, 23)]
      [] s = "192.0.2.0/23"    -> [ok |-> TRUE, net |-> Net(192, 0, 2, 0, 23)]
      [] OTHER                 -> [ok |-> FALSE, net |-> Net(0, 0, 0, 0, 32)]

\* ipaddress.ip_network(s) with strict=True: ValueError (ok = FALSE) when the
\* string spells no network or the address has host bits set.
ip_network(s) ==
    LET l == Lex(s)
    IN  IF l.ok /\ Low24(l.net.addr) % Pow2(32 - l.net.prefix) = 0
        THEN l
        ELSE [ok |-> FALSE, net |-> Net(0, 0, 0, 0, 32)]

\* ------------------------------------------------------------- helpers
Range(f) == { f[i] : i \in DOMAIN f }

\* A dict with no key.
EmptyDict == [k \in {} |-> ""]

\* d[k] = v on a dict.
Put(d, k, v) == (k :> v) @@ d

\* defaultdict(lambda: [0, 0]): a read of a missing key yields [0, 0].
GetDefault(d, k) == IF k \in DOMAIN d THEN d[k] ELSE <<0, 0>>

Min(a, b) == IF a <= b THEN a ELSE b

\* ------------------------------------------------------ Network Classifier
\* The loop of is_local_network over the hosts of index lo..hi, in index
\* order, stopping at the first private or loopback host (the range is
\* halved so that the evaluation stays shallow; the left half runs first).
RECURSIVE IsLocalIn(_, _, _)
IsLocalIn(network, lo, hi) ==
    IF lo > hi THEN FALSE
    ELSE IF lo = hi
         THEN IsPrivate(HostAt(network, lo)) \/ IsLoopback(HostAt(network, lo))
         ELSE LET mid == (lo + hi) \div 2
              IN  IsLocalIn(network, lo, mid) \/ IsLocalIn(network, mid + 1, hi)

\* A classifier that returns after looking at the first host only.
Mutant_is_local_network(network) ==
    /\ NumHosts(network) > 0
    /\ IsPrivate(HostAt(network, 0)) \/ IsLoopback(HostAt(network, 0))

is_local_network(network) == IsLocalIn(network, 0, NumHosts(network) - 1)

\* ------------------------------------------------------------ Input Loader
\* The rows an input table is made of: csv.DictReader yields one dict per data
\* line; an empty cell is the empty string.
InputRows ==
    { [network |-> "8.8.8.0/24",     postal_code |-> "98765"],
      [network |-> "8.8.4.4",        postal_code |-> "98765"],
      [network |-> "8.8.4.4/32",     postal_code |-> "NA"],
      [network |-> "8.8.8.8/29",     postal_code |-> "02134"],
      [network |-> "203.0.112.0/23", postal_code |-> "54321"],
      [network |-> "192.168.1.0/24", postal_code |-> "12345"],
      [network |-> "8.8.8.1/24",     postal_code |-> "98765"],
      [network |-> "",               postal_code |-> "67890"],
      [network |-> "8.8.8.8/29",     postal_code |-> ""] }

InputTables == UNION { [1..n -> InputRows] : n \in 0..MaxRows }

\* A loop body that keeps a row without asking the classifier.
Mutant_ProcessRow(acc, row) ==
    IF row.network = "" \/ row.postal_code = "" THEN acc
    ELSE LET parsed == ip_network(row.network)
         IN  IF ~parsed.ok
             THEN [acc EXCEPT !.row_count = @ + 1]
             ELSE [networks     |-> Append(acc.networks, NetStr(parsed.net)),
                   postal_codes |-> Put(acc.postal_codes, NetStr(parsed.net),
                                        row.postal_code),
                   row_count    |-> acc.row_count + 1]

\* A loop body that skips a row only for a missing network, and keeps one
\* whose postal code is missing.
Mutant_ProcessRow_KeepsBlankCode(acc, row) ==
    IF row.network = "" THEN acc
    ELSE LET parsed == ip_network(row.network)
         IN  IF ~parsed.ok
             THEN [acc EXCEPT !.row_count = @ + 1]
             ELSE IF is_local_network(parsed.net)
                  THEN acc
                  ELSE [networks     |-> Append(acc.networks, NetStr(parsed.net)),
                        postal_codes |-> Put(acc.postal_codes, NetStr(parsed.net),
                                             row.postal_code),
                        row_count    |-> acc.row_count + 1]

\* A loop body that appends the cell text as the row spells it and keys the
\* mapping by the parsed network.
Mutant_ProcessRow_RawSpelling(acc, row) ==
    IF row.network = "" \/ row.postal_code = "" THEN acc
    ELSE LET parsed == ip_network(row.network)
         IN  IF ~parsed.ok
             THEN [acc EXCEPT !.row_count = @ + 1]
             ELSE IF is_local_network(parsed.net)
                  THEN acc
                  ELSE [networks     |-> Append(acc.networks, row.network),
                        postal_codes |-> Put(acc.postal_codes, NetStr(parsed.net),
                                             row.postal_code),
                        row_count    |-> acc.row_count + 1]

\* A loop body that keeps the postal code a CIDR was first given.
Mutant_ProcessRow_FirstCodeWins(acc, row) ==
    IF row.network = "" \/ row.postal_code = "" THEN acc
    ELSE LET parsed == ip_network(row.network)
         IN  IF ~parsed.ok
             THEN [acc EXCEPT !.row_count = @ + 1]
             ELSE IF is_local_network(parsed.net)
                  THEN acc
                  ELSE [networks     |-> Append(acc.networks, NetStr(parsed.net)),
                        postal_codes |->
                            IF NetStr(parsed.net) \in DOMAIN acc.postal_codes
                            THEN acc.postal_codes
                            ELSE Put(acc.postal_codes, NetStr(parsed.net),
                                     row.postal_code),
                        row_count    |-> acc.row_count + 1]

\* One pass of the body of the for loop (lines 123-143) over a row that the
\* cap test let through.
ProcessRow(acc, row) ==
    IF row.network = "" \/ row.postal_code = ""
    THEN acc                                              \* continue, line 128
    ELSE LET parsed == ip_network(row.network)
         IN  IF ~parsed.ok
             THEN [acc EXCEPT !.row_count = @ + 1]        \* except ValueError
             ELSE IF is_local_network(parsed.net)
                  THEN acc                                \* continue, line 135
                  ELSE [networks     |-> Append(acc.networks, NetStr(parsed.net)),
                        postal_codes |-> Put(acc.postal_codes, NetStr(parsed.net),
                                             row.postal_code),
                        row_count    |-> acc.row_count + 1]

\* The for loop from row i on; max_networks = 0 is "no cap".
RECURSIVE ProcessRows(_, _, _, _)
ProcessRows(rows, i, cap, acc) ==
    IF i > Len(rows) THEN acc
    ELSE IF cap # 0 /\ acc.row_count >= cap THEN acc       \* break, line 121
    ELSE ProcessRows(rows, i + 1, cap, ProcessRow(acc, rows[i]))

process_input_csv(rows, cap) ==
    ProcessRows(rows, 1, cap,
                [networks |-> <<>>, postal_codes |-> EmptyDict, row_count |-> 0])

\* ----------------------------------------------------- Reachability Source
\* f.read().strip().split('\n') of a file that main wrote as
\* "\n".join(networks): the lines again, and one empty string for an empty file.
FileLines(file) == IF file = <<>> THEN <<"">> ELSE file

\* A response test that answers for every second host.
Mutant_Responds(i) == i % 2 = 0

\* Line 58: the enumerated host of index i is made to respond.
Responds(i) == i % 4 = 0

\* Lines 52-59: the hosts of one network from index i on, added to acc.
RECURSIVE SimulateHosts(_, _, _)
SimulateHosts(network, i, acc) ==
    IF i >= NumHosts(network) THEN acc
    ELSE IF i >= 10 THEN acc                                \* break, line 55
    ELSE SimulateHosts(network, i + 1,
             IF Responds(i) THEN acc \cup {IpStr(HostAt(network, i))} ELSE acc)

\* Lines 45-61: the lines of the networks file from line k on.
RECURSIVE SimulateLines(_, _, _)
SimulateLines(lines, k, acc) ==
    IF k > Len(lines) THEN acc
    ELSE IF lines[k] = "" THEN SimulateLines(lines, k + 1, acc)
    ELSE LET parsed == ip_network(lines[k])
         IN  IF ~parsed.ok
             THEN SimulateLines(lines, k + 1, acc)          \* warning, line 61
             ELSE SimulateLines(lines, k + 1, SimulateHosts(parsed.net, 0, acc))

\* The parameter defaults of get_zmap_scan_results, line 20.
DefaultCall ==
    [output_file |-> "", bandwidth |-> "10M", port |-> 80, simulation_mode |-> TRUE]

\* The calls the repository makes: main (lines 259-263) and the test (line 96)
\* leave simulation_mode at its default, run_scan passes it (app.py line 257).
ScanCalls ==
    { [given |-> FALSE, simulation_mode |-> DefaultCall.simulation_mode],
      [given |-> TRUE,  simulation_mode |-> FALSE] }

\* Lines 67-74: the command line of the external tool.
ZmapCmd(path, output_file, bandwidth, port) ==
    <<"zmap", "-p", ToString(port), "-B", bandwidth, "-w", path>> \o
    (IF output_file # "" THEN <<"-o", output_file>> ELSE <<"-o", "-">>)

\* What the external tool may print: the lines of its standard output.
ZmapStdouts == { <<>>, <<"8.8.8.1", "8.8.8.3", "8.8.4.4">> }

\* Line 86: set(result.stdout.strip().split("\n")), every printed line ending
\* in a newline; the split of an empty text is one empty string.
StdoutSet(lines) == IF lines = <<>> THEN {""} ELSE Range(lines)

\* -------------------------------------------------- Availability Aggregator
\* A loop body that counts a host in the total only when it did not respond.
Mutant_RecordHost(acc, network_str, postal_code, ip_str, reachable) ==
    LET is_reachable == ip_str \in reachable
        cur == GetDefault(acc.availability, postal_code)
    IN  [acc EXCEPT
           !.networks_and_ips =
               Append(acc.networks_and_ips,
                      [network |-> network_str, ip |-> ip_str,
                       postal_code |-> postal_code,
                       reachable |-> IF is_reachable THEN 1 ELSE 0]),
           !.availability =
               Put(acc.availability, postal_code,
                   IF is_reachable THEN <<cur[1] + 1, cur[2]>>
                                   ELSE <<cur[1], cur[2] + 1>>)]

\* Lines 174-187: one host of one network.
RecordHost(acc, network_str, postal_code, ip_str, reachable) ==
    LET is_reachable == ip_str \in reachable
        cur == GetDefault(acc.availability, postal_code)
    IN  [acc EXCEPT
           !.networks_and_ips =
               Append(acc.networks_and_ips,
                      [network |-> network_str, ip |-> ip_str,
                       postal_code |-> postal_code,
                       reachable |-> IF is_reachable THEN 1 ELSE 0]),
           !.availability =
               Put(acc.availability, postal_code,
                   <<IF is_reachable THEN cur[1] + 1 ELSE cur[1], cur[2] + 1>>)]

\* Line 173: the hosts of index lo..hi of one network, in index order (the
\* range is halved so that the evaluation stays shallow).
RECURSIVE HostLoop(_, _, _, _, _, _, _)
HostLoop(network, network_str, postal_code, reachable, lo, hi, acc) ==
    IF lo > hi THEN acc
    ELSE IF lo = hi
         THEN RecordHost(acc, network_str, postal_code,
                         IpStr(HostAt(network, lo)), reachable)
         ELSE LET mid == (lo + hi) \div 2
                  left == HostLoop(network, network_str, postal_code, reachable,
                                   lo, mid, acc)
              IN  IF Len(left.networks_and_ips) >= 0   \* left half first
                  THEN HostLoop(network, network_str, postal_code, reachable,
                                mid + 1, hi, left)
                  ELSE left

\* Lines 169-187: the networks of the list from index k on.  Line 170 raises
\* ValueError for a string that is no network and line 171 raises KeyError
\* for a network that is no key of the mapping; nothing in the function
\* catches either, so the loop ends there.
RECURSIVE NetworkLoop(_, _, _, _, _)
NetworkLoop(nets, codes, reachable, k, acc) ==
    IF k > Len(nets) THEN acc
    ELSE IF ~ip_network(nets[k]).ok THEN [acc EXCEPT !.raised = "ValueError"]
    ELSE IF nets[k] \notin DOMAIN codes THEN [acc EXCEPT !.raised = "KeyError"]
    ELSE LET network == ip_network(nets[k]).net
             postal_code == codes[nets[k]]
         IN  NetworkLoop(nets, codes, reachable, k + 1,
                 HostLoop(network, nets[k], postal_code, reachable,
                          0, NumHosts(network) - 1, acc))

\* The list without the later occurrences of a CIDR.
RECURSIVE Distinct(_, _, _)
Distinct(nets, k, acc) ==
    IF k > Len(nets) THEN acc
    ELSE Distinct(nets, k + 1,
                  IF nets[k] \in Range(acc) THEN acc ELSE Append(acc, nets[k]))

\* An aggregator that walks the keys of the mapping, not the list.
Mutant_calculate_availability(nets, codes, reachable) ==
    NetworkLoop(Distinct(nets, 1, <<>>), codes, reachable, 1,
                [networks_and_ips |-> <<>>, availability |-> EmptyDict,
                 raised |-> ""])

calculate_availability(nets, codes, reachable) ==
    NetworkLoop(nets, codes, reachable, 1,
                [networks_and_ips |-> <<>>, availability |-> EmptyDict,
                 raised |-> ""])

\* Lines 190-191: pd.DataFrame(rows).to_csv(path, index=False).  The columns
\* are the keys of the first dict, so a list of no rows writes no column name;
\* every cell is written as text.
to_csv(rows) ==
    [header |-> IF rows = <<>> THEN <<>>
                ELSE <<"network", "ip", "postal_code", "reachable">>,
     rows   |-> [i \in DOMAIN rows |->
                    [network |-> rows[i].network, ip |-> rows[i].ip,
                     postal_code |-> rows[i].postal_code,
                     reachable |-> ToString(rows[i].reachable)]]]

\* ------------------------------------------------------ direct-fold variant
\* The cell texts pandas reads as a missing value (read_csv's default
\* na_values, which dtype=str does not switch off).
NaTokens ==
    { "", "#N/A", "#N/A N/A", "#NA", "-1.#IND", "-1.#QNAN", "-NaN", "-nan",
      "1.#IND", "1.#QNAN", "<NA>", "N/A", "NA", "NULL", "NaN", "None", "n/a",
      "nan", "null" }

\* An integer column cell.
ParseInt(t) == IF t = "1" THEN 1 ELSE 0

\* Line 34: pd.read_csv(file_path, dtype={'postal_code': str}), for a file
\* that has a header line.
read_csv(file) ==
    [i \in DOMAIN file.rows |->
        [postal_code |-> [isnull |-> file.rows[i].postal_code \in NaTokens,
                          str    |-> file.rows[i].postal_code],
         reachable   |-> ParseInt(file.rows[i].reachable)]]

\* Lines 37-43: df[valid_mask], the rows whose postal code is not null.
RECURSIVE FilterValid(_, _, _, _)
FilterValid(frame, lo, hi, acc) ==
    IF lo > hi THEN acc
    ELSE IF lo = hi
         THEN IF frame[lo].postal_code.isnull THEN acc ELSE Append(acc, frame[lo])
         ELSE LET mid == (lo + hi) \div 2
                  left == FilterValid(frame, lo, mid, acc)
              IN  IF Len(left) >= 0                    \* left half first
                  THEN FilterValid(frame, mid + 1, hi, left)
                  ELSE left

\* A loader that keeps the rows whose postal code is null.
Mutant_load_networks_data(file) == read_csv(file)

load_networks_data(file) ==
    LET frame == read_csv(file) IN FilterValid(frame, 1, Len(frame), <<>>)

\* A fold that counts a row in the total only when its flag is 0.
Mutant_FoldRow(acc, row) ==
    LET cur == GetDefault(acc, row.postal_code.str)
    IN  Put(acc, row.postal_code.str,
            <<cur[1] + row.reachable, cur[2] + (1 - row.reachable)>>)

\* Lines 67-71 of the direct fold: one row.
FoldRow(acc, row) ==
    LET cur == GetDefault(acc, row.postal_code.str)
    IN  Put(acc, row.postal_code.str, <<cur[1] + row.reachable, cur[2] + 1>>)

\* Line 66: the rows lo..hi of the frame, in order.
RECURSIVE FoldRows(_, _, _, _)
FoldRows(frame, lo, hi, acc) ==
    IF lo > hi THEN acc
    ELSE IF lo = hi THEN FoldRow(acc, frame[lo])
         ELSE LET mid == (lo + hi) \div 2
                  left == FoldRows(frame, lo, mid, acc)
              IN  IF Cardinality(DOMAIN left) >= 0              \* left half first
                  THEN FoldRows(frame, mid + 1, hi, left)
                  ELSE left

viz_calculate_availability(frame) == FoldRows(frame, 1, Len(frame), EmptyDict)

\* ------------------------------------------------------------- renderers
\* The test p >= q of two percentages (reachable / total) * 100 of records with
\* total > 0, without fractions.
PctGeq(a, b) == a.reachable * b.total >= b.reachable * a.total

\* The loop that all three renderers open with (lines 208-212 of the pipeline
\* script, 93-96 and 136-140 of the visualizer): the items of the dict from
\* index k on, in dict order.  reachable / total raises ZeroDivisionError for
\* total = 0 and nothing catches it.
RECURSIVE PercentageLoop(_, _, _, _)
PercentageLoop(items, k, threshold, acc) ==
    IF k > Len(items) THEN acc
    ELSE IF items[k].total = 0 THEN [acc EXCEPT !.raised = "ZeroDivisionError"]
    ELSE PercentageLoop(items, k + 1, threshold,
             IF 100 * items[k].reachable >= threshold * items[k].total
             THEN [acc EXCEPT !.data = Append(@, items[k])]
             ELSE acc)

\* list.sort(key=percentage, reverse=True) is stable: x goes behind every
\* element whose percentage is not smaller.
RECURSIVE InsertDesc(_, _, _)
InsertDesc(sorted, x, k) ==
    IF k > Len(sorted) THEN Append(sorted, x)
    ELSE IF PctGeq(sorted[k], x) THEN InsertDesc(sorted, x, k + 1)
    ELSE SubSeq(sorted, 1, k - 1) \o <<x>> \o SubSeq(sorted, k, Len(sorted))

RECURSIVE SortDesc(_, _, _)
SortDesc(data, k, acc) ==
    IF k > Len(data) THEN acc
    ELSE SortDesc(data, k + 1, InsertDesc(acc, data[k], 1))

\* visualize_response_rates, lines 196-229: the bars in dict order, or no
\* chart when nothing passes the threshold.
visualize_response_rates(items, threshold) ==
    LET r == PercentageLoop(items, 1, threshold, [raised |-> "", data |-> <<>>])
    IN  [function |-> "visualize_response_rates", raised |-> r.raised,
         chart |-> r.raised = "" /\ r.data # <<>>,
         bars |-> IF r.raised = "" THEN r.data ELSE <<>>]

\* visualize_basic_bar, lines 81-122: the bars by falling percentage, the
\* first max_codes of them.
visualize_basic_bar(items, threshold, max_codes) ==
    LET r == PercentageLoop(items, 1, threshold, [raised |-> "", data |-> <<>>])
        sorted == SortDesc(r.data, 1, <<>>)
        data == IF max_codes # 0 /\ Len(sorted) > max_codes
                THEN SubSeq(sorted, 1, max_codes) ELSE sorted
    IN  [function |-> "visualize_basic_bar", raised |-> r.raised,
         chart |-> r.raised = "" /\ data # <<>>,
         bars |-> IF r.raised = "" THEN data ELSE <<>>]

\* visualize_heatmap, lines 124-178: one cell per postal code that passes the
\* threshold.
visualize_heatmap(items, threshold) ==
    LET r == PercentageLoop(items, 1, threshold, [raised |-> "", data |-> <<>>])
    IN  [function |-> "visualize_heatmap", raised |-> r.raised,
         chart |-> r.raised = "" /\ r.data # <<>>,
         bars |-> IF r.raised = "" THEN r.data ELSE <<>>]

\* ------------------------------------------------------------------ state
VARIABLES
    pc,                      \* position of the run
    input_csv,               \* the data rows of the input file
    max_networks,            \* the cap argument, 0 when not given
    networks,                \* list returned by process_input_csv
    postal_codes,            \* dict returned by process_input_csv
    row_count,               \* the loader's counter when it returned
    networks_file,           \* the lines of the networks file
    call,                    \* how get_zmap_scan_results was called
    zmap_calls,              \* the command lines subprocess.run was given
    zmap_stdout,             \* the lines the external tool printed
    reachable_ips,           \* set returned by get_zmap_scan_results
    postal_code_availability,\* dict returned by calculate_availability
    networks_and_ips,        \* the AddressRecord list of calculate_availability
    export_csv,              \* the file networks_and_ips.csv
    df,                      \* frame returned by load_networks_data
    viz_availability,        \* dict returned by the direct fold
    networks_file_exists,    \* os.path.exists of the networks file
    stats,                   \* the dict a renderer is given, as its items
    min_threshold,           \* the threshold a renderer is given
    rendered,                \* what the renderer drew, or that it raised
    scans,                   \* table scans, the row of scan_id n at index n
    db_networks,             \* table networks, network_id n at index n
    db_results,              \* table scan_results, in insertion order
    response,                \* the last HTTP response of the service
    task,                    \* the locals of the running background task
    task_result,             \* per scan_id, how its run_scan call ended
    tmp_files,               \* the files /tmp/networks_{scan_id}.txt, by scan_id
    tasks                    \* per scan_id, the locals of its background task when two run

vars == <<pc, input_csv, max_networks, networks, postal_codes, row_count,
          networks_file, call, zmap_calls, zmap_stdout, reachable_ips,
          postal_code_availability, networks_and_ips, export_csv, df,
          viz_availability, networks_file_exists, stats, min_threshold, rendered,
          scans, db_networks, db_results, response, task, task_result, tmp_files,
          tasks>>

loadVars == <<input_csv, max_networks, networks, postal_codes, row_count>>
scanVars == <<networks_file, networks_file_exists, call, zmap_calls, zmap_stdout,
              reachable_ips>>
aggVars  == <<postal_code_availability, networks_and_ips, export_csv>>
vizVars  == <<df, viz_availability>>
renderVars == <<stats, min_threshold, rendered>>

NoRender == [function |-> "", raised |-> "", chart |-> FALSE, bars |-> <<>>]

\* No renderer has been called.
RenderIdle ==
    /\ stats = <<>>
    /\ min_threshold = 0
    /\ rendered = NoRender

apiVars == <<scans, db_networks, db_results, response, task, task_result, tmp_files,
            tasks>>

\* The locals of run_scan before its first statement.
NoTask ==
    [scan_id |-> 0, input_file |-> "", simulate |-> FALSE, networks |-> <<>>,
     postal_codes |-> EmptyDict, network_map |-> EmptyDict, reachable_ips |-> {},
     results_data |-> <<>>, i |-> 0, error |-> ""]

NoResponse == [endpoint |-> "", scan_id |-> 0, status |-> 0, results |-> {}]

\* An empty database, no request served, no task running.
ApiIdle ==
    /\ scans = <<>>
    /\ db_networks = <<>>
    /\ db_results = <<>>
    /\ response = NoResponse
    /\ task = NoTask
    /\ task_result = <<>>
    /\ tmp_files = EmptyDict
    /\ tasks = EmptyDict

NoFile == [header |-> <<>>, rows |-> <<>>]

Init ==
    /\ pc = "start"
    /\ input_csv \in InputTables
    /\ max_networks \in 0..MaxCap
    /\ networks = <<>>
    /\ postal_codes = EmptyDict
    /\ row_count = 0
    /\ networks_file = <<>>
    /\ call = [given |-> FALSE, simulation_mode |-> DefaultCall.simulation_mode]
    /\ zmap_calls = <<>>
    /\ zmap_stdout = <<>>
    /\ reachable_ips = {}
    /\ postal_code_availability = EmptyDict
    /\ networks_and_ips = <<>>
    /\ export_csv = NoFile
    /\ df = <<>>
    /\ viz_availability = EmptyDict
    /\ networks_file_exists = FALSE
    /\ RenderIdle
    /\ ApiIdle

\* main, lines 250-251: networks, postal_codes = process_input_csv(...)
Load ==
    /\ pc = "start"
    /\ LET r == process_input_csv(input_csv, max_networks)
       IN  /\ networks' = r.networks
           /\ postal_codes' = r.postal_codes
           /\ row_count' = r.row_count
    /\ pc' = "loaded"
    /\ UNCHANGED <<input_csv, max_networks, scanVars, aggVars, vizVars, renderVars, apiVars>>

\* main, lines 254-255: f.write("\n".join(networks))
WriteNetworksFile ==
    /\ pc = "loaded"
    /\ networks_file' = networks
    /\ networks_file_exists' = TRUE
    /\ pc' = "written"
    /\ UNCHANGED <<loadVars, call, zmap_calls, zmap_stdout, reachable_ips, aggVars,
                   vizVars, renderVars, apiVars>>

\* get_zmap_scan_results, lines 38-64: the simulated scan.
ScanSimulated ==
    /\ pc = "written"
    /\ networks_file_exists
    /\ \E c \in ScanCalls :
          /\ c.simulation_mode
          /\ call' = c
    /\ reachable_ips' = SimulateLines(FileLines(networks_file), 1, {})
    /\ pc' = "scanned"
    /\ UNCHANGED <<loadVars, networks_file, networks_file_exists, zmap_calls, zmap_stdout, aggVars,
                   vizVars, renderVars, apiVars>>

\* get_zmap_scan_results, lines 67-86: the external tool exits with status 0.
ScanDelegated ==
    /\ pc = "written"
    /\ networks_file_exists
    /\ \E c \in ScanCalls, out \in ZmapStdouts :
          /\ ~c.simulation_mode
          /\ call' = c
          /\ zmap_calls' = Append(zmap_calls,
                 ZmapCmd("networks.txt", DefaultCall.output_file,
                         DefaultCall.bandwidth, DefaultCall.port))
          /\ zmap_stdout' = out
          /\ reachable_ips' = StdoutSet(out)
    /\ pc' = "scanned"
    /\ UNCHANGED <<loadVars, networks_file, networks_file_exists, aggVars, vizVars, renderVars, apiVars>>

\* A scan that runs the external tool a second time when the first run exits
\* with a nonzero status.
Mutant_ScanDelegatedFails ==
    /\ pc = "written"
    /\ networks_file_exists
    /\ \E c \in ScanCalls :
          /\ ~c.simulation_mode
          /\ call' = c
          /\ zmap_calls' =
                 zmap_calls \o
                 << ZmapCmd("networks.txt", DefaultCall.output_file,
                            DefaultCall.bandwidth, DefaultCall.port),
                    ZmapCmd("networks.txt", DefaultCall.output_file,
                            DefaultCall.bandwidth, DefaultCall.port) >>
    /\ pc' = "scan_failed"
    /\ UNCHANGED <<loadVars, networks_file, networks_file_exists, zmap_stdout,
                   reachable_ips, aggVars, vizVars, renderVars, apiVars>>

\* get_zmap_scan_results, lines 87-89: check=True raises CalledProcessError.
ScanDelegatedFails ==
    /\ pc = "written"
    /\ networks_file_exists
    /\ \E c \in ScanCalls :
          /\ ~c.simulation_mode
          /\ call' = c
          /\ zmap_calls' = Append(zmap_calls,
                 ZmapCmd("networks.txt", DefaultCall.output_file,
                         DefaultCall.bandwidth, DefaultCall.port))
    /\ pc' = "scan_failed"
    /\ UNCHANGED <<loadVars, networks_file, networks_file_exists, zmap_stdout, reachable_ips, aggVars,
                   vizVars, renderVars, apiVars>>

\* main, line 266: calculate_availability, with the export it writes.
Aggregate ==
    /\ pc = "scanned"
    /\ LET r == calculate_availability(networks, postal_codes, reachable_ips)
       IN  /\ r.raised = ""
           /\ postal_code_availability' = r.availability
           /\ networks_and_ips' = r.networks_and_ips
           /\ export_csv' = to_csv(r.networks_and_ips)
    /\ pc' = "aggregated"
    /\ UNCHANGED <<loadVars, scanVars, vizVars, renderVars, apiVars>>

\* load_networks_data on the export: the frame, filtered.
VizLoad ==
    /\ pc = "aggregated"
    /\ export_csv.header # <<>>
    /\ df' = load_networks_data(export_csv)
    /\ pc' = "viz_loaded"
    /\ UNCHANGED <<loadVars, scanVars, aggVars, viz_availability, renderVars, apiVars>>

\* load_networks_data on an export without a header line: read_csv raises
\* EmptyDataError, which lines 48-50 log and raise again.
VizLoadFails ==
    /\ pc = "aggregated"
    /\ export_csv.header = <<>>
    /\ pc' = "viz_failed"
    /\ UNCHANGED <<loadVars, scanVars, aggVars, vizVars, renderVars, apiVars>>

\* The direct fold over the loaded frame.
VizFold ==
    /\ pc = "viz_loaded"
    /\ viz_availability' = viz_calculate_availability(df)
    /\ pc' = "viz_done"
    /\ UNCHANGED <<loadVars, scanVars, aggVars, df, renderVars, apiVars>>

Next ==
    \/ Load
    \/ WriteNetworksFile
    \/ ScanSimulated
    \/ ScanDelegated
    \/ ScanDelegatedFails
    \/ Aggregate
    \/ VizLoad
    \/ VizLoadFails
    \/ VizFold

Spec == Init /\ [][Next]_vars

\* ------------------------------------------- calculate_availability, called
\* The calls of calculate_availability with a list and a mapping of the
\* caller's own making (as the test does, lines 105-127), in a directory that
\* may hold the export of an earlier run.
AggNetworks == {"8.8.8.8/29", "8.8.4.4/32", "8.8.8.1/24"}

AggMappings ==
    UNION { [K -> {"98765", "02134"}] : K \in SUBSET AggNetworks }

EarlierExport ==
    to_csv(<< [network |-> "8.8.4.4/32", ip |-> "8.8.4.4",
               postal_code |-> "54321", reachable |-> 1] >>)

InitAggregate ==
    /\ pc = "scanned"
    /\ input_csv = <<>>
    /\ max_networks = 0
    /\ networks \in UNION { [1..n -> AggNetworks] : n \in 0..MaxRows }
    /\ postal_codes \in AggMappings
    /\ row_count = 0
    /\ networks_file = <<>>
    /\ networks_file_exists = FALSE
    /\ call = [given |-> FALSE, simulation_mode |-> DefaultCall.simulation_mode]
    /\ zmap_calls = <<>>
    /\ zmap_stdout = <<>>
    /\ reachable_ips \in { {}, {"8.8.8.9", "8.8.4.4"} }
    /\ postal_code_availability = EmptyDict
    /\ networks_and_ips = <<>>
    /\ export_csv \in { NoFile, EarlierExport }
    /\ df = <<>>
    /\ viz_availability = EmptyDict
    /\ RenderIdle
    /\ ApiIdle

\* An aggregator that writes the export of the rows it had emitted when the
\* loop ended in an exception.
Mutant_AggregateRaises ==
    /\ pc = "scanned"
    /\ LET r == calculate_availability(networks, postal_codes, reachable_ips)
       IN  /\ r.raised # ""
           /\ export_csv' = to_csv(r.networks_and_ips)
           /\ pc' = IF r.raised = "KeyError" THEN "agg_key_error"
                                             ELSE "agg_value_error"
    /\ UNCHANGED <<loadVars, scanVars, postal_code_availability, networks_and_ips,
                   vizVars, renderVars, apiVars>>

\* calculate_availability ends in the exception of line 170 or 171: nothing is
\* returned, and lines 190-191 are not reached.
AggregateRaises ==
    /\ pc = "scanned"
    /\ LET r == calculate_availability(networks, postal_codes, reachable_ips)
       IN  /\ r.raised # ""
           /\ pc' = IF r.raised = "KeyError" THEN "agg_key_error"
                                             ELSE "agg_value_error"
    /\ UNCHANGED <<loadVars, scanVars, aggVars, vizVars, renderVars, apiVars>>

NextAggregate == Aggregate \/ AggregateRaises

SpecAggregate == InitAggregate /\ [][NextAggregate]_vars

\* -------------------------------------------- get_zmap_scan_results, called
\* The calls of get_zmap_scan_results with a path of the caller's own: the
\* file holds some networks, or there is no file at the path.
ScanNetworks ==
    {"8.8.8.0/24", "8.8.8.8/29", "8.8.4.4/32", "8.8.8.0/30", "203.0.112.0/23"}

InitScan ==
    /\ pc = "written"
    /\ input_csv = <<>>
    /\ max_networks = 0
    /\ networks = <<>>
    /\ postal_codes = EmptyDict
    /\ row_count = 0
    /\ networks_file_exists \in BOOLEAN
    /\ networks_file \in IF networks_file_exists
                         THEN UNION { [1..n -> ScanNetworks] : n \in 0..MaxRows }
                         ELSE { <<>> }
    /\ call = [given |-> FALSE, simulation_mode |-> DefaultCall.simulation_mode]
    /\ zmap_calls = <<>>
    /\ zmap_stdout = <<>>
    /\ reachable_ips = {}
    /\ postal_code_availability = EmptyDict
    /\ networks_and_ips = <<>>
    /\ export_csv = NoFile
    /\ df = <<>>
    /\ viz_availability = EmptyDict
    /\ RenderIdle
    /\ ApiIdle

\* get_zmap_scan_results, lines 34-35: no file at the path, in either mode.
ScanFileMissing ==
    /\ pc = "written"
    /\ ~networks_file_exists
    /\ \E c \in ScanCalls : call' = c
    /\ pc' = "scan_missing"
    /\ UNCHANGED <<loadVars, networks_file, networks_file_exists, zmap_calls,
                   zmap_stdout, reachable_ips, aggVars, vizVars, renderVars, apiVars>>

NextScan ==
    \/ ScanSimulated
    \/ ScanDelegated
    \/ ScanDelegatedFails
    \/ ScanFileMissing

SpecScan == InitScan /\ [][NextScan]_vars

\* ------------------------------------------------- direct fold, on any file
\* The record sets that may be found persisted: rows of one address each, the
\* postal code cell a code or empty, the flag cell 0 or 1.
ExportRows ==
    { [network |-> "8.8.8.0/24", ip |-> "8.8.8.1", postal_code |-> c, reachable |-> f]
        : c \in {"98765", "02134", ""}, f \in {"0", "1"} }

ExportFiles ==
    { [header |-> <<"network", "ip", "postal_code", "reachable">>, rows |-> rows]
        : rows \in UNION { [1..n -> ExportRows] : n \in 0..MaxExportRows } }

InitFold ==
    /\ pc = "aggregated"
    /\ input_csv = <<>>
    /\ max_networks = 0
    /\ networks = <<>>
    /\ postal_codes = EmptyDict
    /\ row_count = 0
    /\ networks_file = <<>>
    /\ networks_file_exists = FALSE
    /\ call = [given |-> FALSE, simulation_mode |-> DefaultCall.simulation_mode]
    /\ zmap_calls = <<>>
    /\ zmap_stdout = <<>>
    /\ reachable_ips = {}
    /\ postal_code_availability = EmptyDict
    /\ networks_and_ips = <<>>
    /\ export_csv \in ExportFiles \cup {NoFile}
    /\ df = <<>>
    /\ viz_availability = EmptyDict
    /\ RenderIdle
    /\ ApiIdle

NextFold == VizLoad \/ VizLoadFails \/ VizFold

SpecFold == InitFold /\ [][NextFold]_vars

\* ------------------------------------------------------- renderers, called
RenderCodes == {"98765", "02134"}
RenderCounts == { <<0, 0>>, <<1, 2>>, <<0, 3>>, <<2, 2>> }

\* The dicts a renderer is given, as their items in insertion order; a key
\* occurs once.
RenderStats ==
    { items \in UNION { [1..n -> [postal_code : RenderCodes,
                                  reachable : {0, 1, 2}, total : {0, 2, 3}]]
                        : n \in 0..Cardinality(RenderCodes) } :
        /\ \A i \in DOMAIN items :
              <<items[i].reachable, items[i].total>> \in RenderCounts
        /\ \A i, j \in DOMAIN items :
              i # j => items[i].postal_code # items[j].postal_code }

InitRender ==
    /\ pc = "render"
    /\ input_csv = <<>>
    /\ max_networks = 0
    /\ networks = <<>>
    /\ postal_codes = EmptyDict
    /\ row_count = 0
    /\ networks_file = <<>>
    /\ networks_file_exists = FALSE
    /\ call = [given |-> FALSE, simulation_mode |-> DefaultCall.simulation_mode]
    /\ zmap_calls = <<>>
    /\ zmap_stdout = <<>>
    /\ reachable_ips = {}
    /\ postal_code_availability = EmptyDict
    /\ networks_and_ips = <<>>
    /\ export_csv = NoFile
    /\ df = <<>>
    /\ viz_availability = EmptyDict
    /\ stats \in RenderStats
    /\ min_threshold \in {0, 50}
    /\ rendered = NoRender
    /\ ApiIdle

\* The renderer returned (pc "rendered") or ended in an exception.
Rendered(r) ==
    /\ pc = "render"
    /\ rendered' = r
    /\ pc' = IF r.raised = "" THEN "rendered" ELSE "render_raised"
    /\ UNCHANGED <<loadVars, scanVars, aggVars, vizVars, stats, min_threshold,
                   apiVars>>

VisualizeResponseRates == Rendered(visualize_response_rates(stats, min_threshold))

VisualizeBasicBar ==
    \E max_codes \in {1, 50} :
        Rendered(visualize_basic_bar(stats, min_threshold, max_codes))

VisualizeHeatmap == Rendered(visualize_heatmap(stats, min_threshold))

NextRender == VisualizeResponseRates \/ VisualizeBasicBar \/ VisualizeHeatmap

SpecRender == InitRender /\ [][NextRender]_vars

\* ------------------------------------------------------------- the service
\* save_scan_results, line 194.
batch_size == 5000

\* The input files on the disk of the service, by path.
InputFiles ==
    "networks.csv" :> << [network |-> "8.8.4.4",    postal_code |-> "98765"],
                         [network |-> "8.8.8.8/29", postal_code |-> "02134"] >>
    @@
    "other.csv"    :> << [network |-> "8.8.8.0/30", postal_code |-> "54321"],
                         [network |-> "8.8.4.4",    postal_code |-> "02134"] >>

\* The bodies of POST /scans: ScanRequest with max_networks, port, bandwidth
\* and description left at their defaults.
ScanRequests == [input_file : {"networks.csv", "missing.csv"}, simulate : BOOLEAN]

\* The input tables of the command-line runs beside the service.
CliTables ==
    { << [network |-> "8.8.4.4", postal_code |-> "98765"] >>,
      << [network |-> "8.8.8.0/30", postal_code |-> "02134"] >> }

pipelineVars == <<loadVars, scanVars, aggVars, vizVars, renderVars>>

IsPrefix(a, b) == Len(a) <= Len(b) /\ SubSeq(b, 1, Len(a)) = a

\* save_networks, lines 162-165: the dict of the ids that INSERT ... RETURNING
\* gave, filled in list order; base is the last network_id in use.
RECURSIVE NetworkMap(_, _, _, _)
NetworkMap(nets, base, k, acc) ==
    IF k > Len(nets) THEN acc
    ELSE NetworkMap(nets, base, k + 1, Put(acc, nets[k], base + k))

\* run_scan, lines 263-277: the rows of one network, hosts in address order.
HostRows(network_str, codes, network_map, reachable) ==
    LET network == ip_network(network_str).net
    IN  [ h \in 1..NumHosts(network) |->
            [network_id  |-> network_map[network_str],
             ip          |-> IpStr(HostAt(network, h - 1)),
             postal_code |-> codes[network_str],
             reachable   |-> IpStr(HostAt(network, h - 1)) \in reachable] ]

\* run_scan, lines 261-277: results_data, networks in list order.
RECURSIVE BuildResults(_, _, _, _, _)
BuildResults(nets, codes, network_map, reachable, k) ==
    IF k > Len(nets) THEN <<>>
    ELSE HostRows(nets[k], codes, network_map, reachable)
         \o BuildResults(nets, codes, network_map, reachable, k + 1)

\* The view postal_code_availability (database.py lines 73-90): one row per
\* scan and postal code of scan_results, joined with scans.
AvailabilityView ==
    { [scan_id         |-> key[1],
       postal_code     |-> key[2],
       reachable_count |-> Cardinality({ i \in DOMAIN db_results :
                               /\ db_results[i].scan_id = key[1]
                               /\ db_results[i].postal_code = key[2]
                               /\ db_results[i].reachable }),
       total_count     |-> Cardinality({ i \in DOMAIN db_results :
                               /\ db_results[i].scan_id = key[1]
                               /\ db_results[i].postal_code = key[2] })]
      : key \in { <<db_results[i].scan_id, db_results[i].postal_code>>
                    : i \in { j \in DOMAIN db_results :
                                db_results[j].scan_id \in DOMAIN scans } } }

\* get_postal_code_availability, lines 216-274.  The argument is <<>> for
\* None and <<n>> for the integer n; "if scan_id:" (line 228) is false for
\* None and for 0.
get_postal_code_availability(scan_id) ==
    IF scan_id # <<>> /\ scan_id[1] # 0
    THEN { row \in AvailabilityView : row.scan_id = scan_id[1] }
    ELSE AvailabilityView

InitApi ==
    /\ pc = "api_idle"
    /\ input_csv = <<>>
    /\ max_networks = 0
    /\ networks = <<>>
    /\ postal_codes = EmptyDict
    /\ row_count = 0
    /\ networks_file = <<>>
    /\ networks_file_exists = FALSE
    /\ call = [given |-> FALSE, simulation_mode |-> DefaultCall.simulation_mode]
    /\ zmap_calls = <<>>
    /\ zmap_stdout = <<>>
    /\ reachable_ips = {}
    /\ postal_code_availability = EmptyDict
    /\ networks_and_ips = <<>>
    /\ export_csv = NoFile
    /\ df = <<>>
    /\ viz_availability = EmptyDict
    /\ RenderIdle
    /\ ApiIdle

\* POST /scans, app.py lines 75-119: the scans row is inserted, the task is
\* queued and the response says so.
CreateScan ==
    /\ pc = "api_idle"
    /\ Len(scans) < MaxScans
    /\ \E req \in ScanRequests :
          LET scan_id == Len(scans) + 1
          IN  /\ scans' = Append(scans,
                     [scan_type |-> IF req.simulate THEN "simulation" ELSE "zmap",
                      description |-> ""])
              /\ task' = [NoTask EXCEPT !.scan_id = scan_id,
                                        !.input_file = req.input_file,
                                        !.simulate = req.simulate]
              /\ task_result' = Append(task_result, "running")
              /\ response' = [endpoint |-> "POST /scans", scan_id |-> scan_id,
                              status |-> 200, results |-> {}]
    /\ pc' = "run_scan"
    /\ UNCHANGED <<tasks, pipelineVars, db_networks, db_results, tmp_files>>

\* A statement of run_scan raised: control is in the except block, line 292.
Raise(message) ==
    /\ task' = [task EXCEPT !.error = message]
    /\ pc' = "task_except"
    /\ UNCHANGED <<tasks, pipelineVars, scans, db_networks, db_results, response,
                   task_result, tmp_files>>

\* run_scan, line 241: process_input_csv(input_file, max_networks).
TaskLoad ==
    /\ pc = "run_scan"
    /\ task.input_file \in DOMAIN InputFiles
    /\ LET r == process_input_csv(InputFiles[task.input_file], 0)
       IN  task' = [task EXCEPT !.networks = r.networks,
                                !.postal_codes = r.postal_codes]
    /\ pc' = "task_save_networks"
    /\ UNCHANGED <<tasks, pipelineVars, scans, db_networks, db_results, response,
                   task_result, tmp_files>>

TaskLoadFails ==
    /\ pc = "run_scan"
    /\ task.input_file \notin DOMAIN InputFiles
    /\ Raise("No such file or directory: " \o task.input_file)

\* run_scan, lines 244-245: db.save_networks, one INSERT in one transaction.
TaskSaveNetworks ==
    /\ pc = "task_save_networks"
    /\ db_networks' = db_networks \o
          [ k \in DOMAIN task.networks |->
              [scan_id |-> task.scan_id, network |-> task.networks[k],
               postal_code |-> task.postal_codes[task.networks[k]]] ]
    /\ task' = [task EXCEPT !.network_map =
                   NetworkMap(task.networks, Len(db_networks), 1, EmptyDict)]
    /\ pc' = "task_write_file"
    /\ UNCHANGED <<tasks, pipelineVars, scans, db_results, response, task_result,
                   tmp_files>>

TaskSaveNetworksFails ==
    /\ pc = "task_save_networks"
    /\ Raise("database error")

\* run_scan, lines 248-250: the networks file of the scan is written.
TaskWriteFile ==
    /\ pc = "task_write_file"
    /\ tmp_files' = Put(tmp_files, task.scan_id, task.networks)
    /\ pc' = "task_scan"
    /\ UNCHANGED <<tasks, pipelineVars, scans, db_networks, db_results, response, task,
                   task_result>>

TaskWriteFileFails ==
    /\ pc = "task_write_file"
    /\ Raise("No space left on device")

\* run_scan, lines 253-277, get_zmap_scan_results returned: results_data is
\* built from the set.
Scanned(reachable) ==
    /\ task' = [task EXCEPT
                  !.reachable_ips = reachable,
                  !.results_data = BuildResults(task.networks, task.postal_codes,
                                                task.network_map, reachable, 1)]
    /\ pc' = "task_save_results"
    /\ UNCHANGED <<tasks, pipelineVars, scans, db_networks, db_results, response,
                   task_result, tmp_files>>

TaskScanSimulated ==
    /\ pc = "task_scan"
    /\ task.simulate
    /\ Scanned(SimulateLines(FileLines(tmp_files[task.scan_id]), 1, {}))

TaskScanDelegated ==
    /\ pc = "task_scan"
    /\ ~task.simulate
    /\ \E out \in ZmapStdouts : Scanned(StdoutSet(out))

TaskScanDelegatedFails ==
    /\ pc = "task_scan"
    /\ ~task.simulate
    /\ Raise("Command zmap returned non-zero exit status 1")

\* The rows of a batch as they are inserted for the scan.
BatchValues(scan_id, batch) ==
    [ k \in DOMAIN batch |->
        [scan_id |-> scan_id, network_id |-> batch[k].network_id,
         ip |-> batch[k].ip, postal_code |-> batch[k].postal_code,
         reachable |-> batch[k].reachable] ]

Batch(results_data, i) ==
    SubSeq(results_data, i + 1, Min(i + batch_size, Len(results_data)))

\* A write that clears the table before it inserts a batch.
Mutant_TaskSaveChunk ==
    /\ pc = "task_save_results"
    /\ task.i < Len(task.results_data)
    /\ db_results' = BatchValues(task.scan_id, Batch(task.results_data, task.i))
    /\ task' = [task EXCEPT !.i = @ + batch_size]
    /\ UNCHANGED <<tasks, pc, pipelineVars, scans, db_networks, response, task_result,
                   tmp_files>>

\* save_scan_results, lines 195-208: one pass of the loop, the batch inserted
\* and committed on a connection of its own.
TaskSaveChunk ==
    /\ pc = "task_save_results"
    /\ task.i < Len(task.results_data)
    /\ db_results' = db_results \o
                     BatchValues(task.scan_id, Batch(task.results_data, task.i))
    /\ task' = [task EXCEPT !.i = @ + batch_size]
    /\ UNCHANGED <<tasks, pc, pipelineVars, scans, db_networks, response, task_result,
                   tmp_files>>

\* A write that takes back the batches it had committed when a batch fails.
Mutant_TaskSaveChunkFails ==
    /\ pc = "task_save_results"
    /\ task.i < Len(task.results_data)
    /\ db_results' = SelectSeq(db_results, LAMBDA row : row.scan_id # task.scan_id)
    /\ task' = [task EXCEPT !.error = "database error"]
    /\ pc' = "task_except"
    /\ UNCHANGED <<tasks, pipelineVars, scans, db_networks, response, task_result,
                   tmp_files>>

\* save_scan_results, lines 212-214: the insert or the commit of a batch
\* raises; the exception is logged and raised again.
TaskSaveChunkFails ==
    /\ pc = "task_save_results"
    /\ task.i < Len(task.results_data)
    /\ Raise("database error")

\* save_scan_results, lines 210-211: the loop is over, the count is returned.
TaskSaveReturn ==
    /\ pc = "task_save_results"
    /\ task.i >= Len(task.results_data)
    /\ pc' = "task_cleanup"
    /\ UNCHANGED <<pipelineVars, apiVars>>

\* run_scan, lines 282-290: the networks file is removed and run_scan returns
\* (no upload is configured).
TaskCleanup ==
    /\ pc = "task_cleanup"
    /\ tmp_files' = [ id \in DOMAIN tmp_files \ {task.scan_id} |-> tmp_files[id] ]
    /\ task_result' = [task_result EXCEPT ![task.scan_id] = "returned"]
    /\ task' = NoTask
    /\ pc' = "api_idle"
    /\ UNCHANGED <<tasks, pipelineVars, scans, db_networks, db_results, response>>

\* run_scan, lines 292-301: the except block writes the annotation and
\* run_scan returns.
TaskExcept ==
    /\ pc = "task_except"
    /\ scans' = [scans EXCEPT ![task.scan_id].description = "FAILED: " \o task.error]
    /\ task_result' = [task_result EXCEPT ![task.scan_id] = "failed"]
    /\ task' = NoTask
    /\ pc' = "api_idle"
    /\ UNCHANGED <<tasks, pipelineVars, db_networks, db_results, response, tmp_files>>

\* run_scan, lines 295-301: the UPDATE of the except block raises (the
\* database is as unreachable as it was for the statement that failed); the
\* block is inside no other try, so the exception leaves run_scan.
TaskExceptFails ==
    /\ pc = "task_except"
    /\ task_result' = [task_result EXCEPT ![task.scan_id] = "raised"]
    /\ task' = NoTask
    /\ pc' = "api_idle"
    /\ UNCHANGED <<tasks, pipelineVars, scans, db_networks, db_results, response,
                   tmp_files>>

\* GET /scans/{scan_id}/availability, app.py lines 121-138, served between
\* two tasks; the path parameter is any integer.
GetScanAvailability ==
    /\ pc = "api_idle"
    /\ \E scan_id \in 0..(Len(scans) + 1) :
          LET results == get_postal_code_availability(<<scan_id>>)
          IN  response' = [endpoint |-> "GET /scans/{scan_id}/availability",
                           scan_id |-> scan_id,
                           status |-> IF results = {} THEN 404 ELSE 200,
                           results |-> results]
    /\ UNCHANGED <<tasks, pc, pipelineVars, scans, db_networks, db_results, task,
                   task_result, tmp_files>>

\* A run of the command-line script (main, lines 231-286) beside the service,
\* from the input table to the export it writes.
CliRun ==
    /\ pc = "api_idle"
    /\ \E table \in CliTables :
          LET loaded == process_input_csv(table, 0)
              reachable == SimulateLines(FileLines(loaded.networks), 1, {})
              r == calculate_availability(loaded.networks, loaded.postal_codes,
                                          reachable)
          IN  /\ networks_file' = loaded.networks
              /\ networks_file_exists' = TRUE
              /\ postal_code_availability' = r.availability
              /\ networks_and_ips' = r.networks_and_ips
              /\ export_csv' = to_csv(r.networks_and_ips)
    /\ UNCHANGED <<pc, loadVars, call, zmap_calls, zmap_stdout, reachable_ips,
                   vizVars, renderVars, apiVars>>

NextApi ==
    \/ CreateScan
    \/ TaskLoad
    \/ TaskLoadFails
    \/ TaskSaveNetworks
    \/ TaskSaveNetworksFails
    \/ TaskWriteFile
    \/ TaskWriteFileFails
    \/ TaskScanSimulated
    \/ TaskScanDelegated
    \/ TaskScanDelegatedFails
    \/ TaskSaveChunk
    \/ TaskSaveChunkFails
    \/ TaskSaveReturn
    \/ TaskCleanup
    \/ TaskExcept
    \/ TaskExceptFails
    \/ GetScanAvailability

SpecApi == InitApi /\ [][NextApi]_vars

\* --------------------------------------------------- save_scan_results, called
\* The lengths of results_data around the multiples of batch_size.
SaveSizes ==
    { b * batch_size + e : b \in 0..MaxBatches, e \in {-1, 0, 1} } \cap Nat

\* A results_data of n rows of n addresses; with some = TRUE every fourth
\* address is reachable.
ResultRows(n, some) ==
    [ k \in 1..n |->
        [network_id  |-> 1,
         ip          |-> IpStr(AddrPlus(<<8, 8, 0, 0>>, k)),
         postal_code |-> "98765",
         reachable   |-> some /\ k % 4 = 1] ]

\* run_scan is at line 280, db.save_scan_results(scan_id, results_data), for
\* the second scan of the database; the first may have left a row.
InitSave ==
    /\ pc = "task_save_results"
    /\ input_csv = <<>>
    /\ max_networks = 0
    /\ networks = <<>>
    /\ postal_codes = EmptyDict
    /\ row_count = 0
    /\ networks_file = <<>>
    /\ networks_file_exists = FALSE
    /\ call = [given |-> FALSE, simulation_mode |-> DefaultCall.simulation_mode]
    /\ zmap_calls = <<>>
    /\ zmap_stdout = <<>>
    /\ reachable_ips = {}
    /\ postal_code_availability = EmptyDict
    /\ networks_and_ips = <<>>
    /\ export_csv = NoFile
    /\ df = <<>>
    /\ viz_availability = EmptyDict
    /\ RenderIdle
    /\ scans = << [scan_type |-> "simulation", description |-> ""],
                  [scan_type |-> "simulation", description |-> ""] >>
    /\ db_networks = << [scan_id |-> 1, network |-> "8.8.4.4/32", postal_code |-> "02134"],
                        [scan_id |-> 2, network |-> "8.8.0.0/18", postal_code |-> "98765"] >>
    /\ db_results \in
          { <<>>,
            << [scan_id |-> 1, network_id |-> 1, ip |-> "8.8.4.4",
                postal_code |-> "02134", reachable |-> TRUE] >> }
    /\ response = NoResponse
    /\ \E n \in SaveSizes, some \in BOOLEAN :
          task = [NoTask EXCEPT !.scan_id = 2, !.simulate = TRUE,
                                !.results_data = ResultRows(n, some)]
    /\ task_result = <<"returned", "running">>
    /\ tmp_files = EmptyDict
    /\ tasks = EmptyDict

NextSave == TaskSaveChunk \/ TaskSaveChunkFails \/ TaskSaveReturn

SpecSave == InitSave /\ [][NextSave]_vars

\* ---------------------------------------------------------------------------
\* Two background tasks at once.  run_scan is a plain function, so the
\* threads of the service run the tasks of two POST /scans side by side; a
\* step of the model is one statement of run_scan whose effect another task
\* can see (a transaction of the database, a write, a read or a removal of a
\* file), or the end of the task.
\* ---------------------------------------------------------------------------

\* The scan identifiers of the two tasks.
TaskIds == {1, 2}

\* The requests the two tasks were queued with.
ConcurrentRequests ==
    { [input_file |-> "networks.csv", simulate |-> TRUE],
      [input_file |-> "other.csv",    simulate |-> TRUE],
      [input_file |-> "other.csv",    simulate |-> FALSE],
      [input_file |-> "missing.csv",  simulate |-> TRUE] }

\* A path that does not depend on the scan.
Mutant_TmpPath(scan_id) == 0

\* run_scan, line 247: temp_networks_file = f"/tmp/networks_{scan_id}.txt";
\* the path stands for itself by the scan_id it holds.
TmpPath(scan_id) == scan_id

\* The locals of a task that has not run its first statement.
NewTask(req) ==
    [pc |-> "run_scan", input_file |-> req.input_file, simulate |-> req.simulate,
     networks |-> <<>>, postal_codes |-> EmptyDict, network_map |-> EmptyDict,
     reachable_ips |-> {}, results_data |-> <<>>, i |-> 0, error |-> ""]

\* Both POST /scans have been answered (app.py lines 75-119): the two scans
\* rows exist and the two tasks are queued.
InitConcurrent ==
    /\ pc = "concurrent"
    /\ input_csv = <<>>
    /\ max_networks = 0
    /\ networks = <<>>
    /\ postal_codes = EmptyDict
    /\ row_count = 0
    /\ networks_file = <<>>
    /\ networks_file_exists = FALSE
    /\ call = [given |-> FALSE, simulation_mode |-> DefaultCall.simulation_mode]
    /\ zmap_calls = <<>>
    /\ zmap_stdout = <<>>
    /\ reachable_ips = {}
    /\ postal_code_availability = EmptyDict
    /\ networks_and_ips = <<>>
    /\ export_csv = NoFile
    /\ df = <<>>
    /\ viz_availability = EmptyDict
    /\ RenderIdle
    /\ \E reqs \in [TaskIds -> ConcurrentRequests] :
          /\ scans = [ id \in 1..2 |->
                         [scan_type |-> IF reqs[id].simulate THEN "simulation" ELSE "zmap",
                          description |-> ""] ]
          /\ tasks = [ id \in TaskIds |-> NewTask(reqs[id]) ]
    /\ db_networks = <<>>
    /\ db_results = <<>>
    /\ response = NoResponse
    /\ task = NoTask
    /\ task_result = [ id \in 1..2 |-> "running" ]
    /\ tmp_files = EmptyDict

\* What a step of a task leaves alone beside the tables and files it names.
ConcurrentFrame == UNCHANGED <<pc, pipelineVars, response, task>>

\* A statement of the task raised: control is in its except block, line 292.
RaiseIn(id, message) ==
    /\ tasks' = [tasks EXCEPT ![id].error = message, ![id].pc = "except"]
    /\ UNCHANGED <<scans, db_networks, db_results, task_result, tmp_files>>
    /\ ConcurrentFrame

\* run_scan, line 241: process_input_csv(input_file, max_networks).
RunScanLoad(id) ==
    /\ tasks[id].pc = "run_scan"
    /\ tasks[id].input_file \in DOMAIN InputFiles
    /\ LET r == process_input_csv(InputFiles[tasks[id].input_file], 0)
       IN  tasks' = [tasks EXCEPT ![id].networks = r.networks,
                                  ![id].postal_codes = r.postal_codes,
                                  ![id].pc = "save_networks"]
    /\ UNCHANGED <<scans, db_networks, db_results, task_result, tmp_files>>
    /\ ConcurrentFrame

RunScanLoadFails(id) ==
    /\ tasks[id].pc = "run_scan"
    /\ tasks[id].input_file \notin DOMAIN InputFiles
    /\ RaiseIn(id, "No such file or directory: " \o tasks[id].input_file)

\* run_scan, lines 244-245: db.save_networks(scan_id, network_data), one
\* INSERT in one transaction; the ids are the next of the table's sequence.
RunScanSaveNetworks(id) ==
    /\ tasks[id].pc = "save_networks"
    /\ db_networks' = db_networks \o
          [ k \in DOMAIN tasks[id].networks |->
              [scan_id |-> id, network |-> tasks[id].networks[k],
               postal_code |-> tasks[id].postal_codes[tasks[id].networks[k]]] ]
    /\ tasks' = [tasks EXCEPT
                   ![id].network_map =
                       NetworkMap(tasks[id].networks, Len(db_networks), 1, EmptyDict),
                   ![id].pc = "write_file"]
    /\ UNCHANGED <<scans, db_results, task_result, tmp_files>>
    /\ ConcurrentFrame

RunScanSaveNetworksFails(id) ==
    /\ tasks[id].pc = "save_networks"
    /\ RaiseIn(id, "database error")

\* run_scan, lines 247-250: the networks file of the scan is written.
RunScanWriteFile(id) ==
    /\ tasks[id].pc = "write_file"
    /\ tmp_files' = Put(tmp_files, TmpPath(id), tasks[id].networks)
    /\ tasks' = [tasks EXCEPT ![id].pc = "scan"]
    /\ UNCHANGED <<scans, db_networks, db_results, task_result>>
    /\ ConcurrentFrame

RunScanWriteFileFails(id) ==
    /\ tasks[id].pc = "write_file"
    /\ RaiseIn(id, "No space left on device")

\* run_scan, lines 253-277, get_zmap_scan_results returned: results_data is
\* built from the set.
ScannedIn(id, reachable) ==
    /\ tasks' = [tasks EXCEPT
                   ![id].reachable_ips = reachable,
                   ![id].results_data =
                       BuildResults(tasks[id].networks, tasks[id].postal_codes,
                                    tasks[id].network_map, reachable, 1),
                   ![id].pc = "save_results"]
    /\ UNCHANGED <<scans, db_networks, db_results, task_result, tmp_files>>
    /\ ConcurrentFrame

\* The simulation reads the file at the path of the task as it is then.
RunScanSimulated(id) ==
    /\ tasks[id].pc = "scan"
    /\ tasks[id].simulate
    /\ TmpPath(id) \in DOMAIN tmp_files
    /\ ScannedIn(id, SimulateLines(FileLines(tmp_files[TmpPath(id)]), 1, {}))

RunScanDelegated(id) ==
    /\ tasks[id].pc = "scan"
    /\ ~tasks[id].simulate
    /\ \E out \in ZmapStdouts : ScannedIn(id, StdoutSet(out))

\* get_zmap_scan_results, lines 87-89: the tool exits with a failure.
RunScanDelegatedFails(id) ==
    /\ tasks[id].pc = "scan"
    /\ ~tasks[id].simulate
    /\ RaiseIn(id, "Command zmap returned non-zero exit status 1")

\* save_scan_results, lines 195-208: one pass of the loop, the batch inserted
\* and committed on a connection of its own.
RunScanSaveChunk(id) ==
    /\ tasks[id].pc = "save_results"
    /\ tasks[id].i < Len(tasks[id].results_data)
    /\ db_results' = db_results \o
          BatchValues(id, Batch(tasks[id].results_data, tasks[id].i))
    /\ tasks' = [tasks EXCEPT ![id].i = @ + batch_size]
    /\ UNCHANGED <<scans, db_networks, task_result, tmp_files>>
    /\ ConcurrentFrame

\* save_scan_results, lines 212-214.
RunScanSaveChunkFails(id) ==
    /\ tasks[id].pc = "save_results"
    /\ tasks[id].i < Len(tasks[id].results_data)
    /\ RaiseIn(id, "database error")

\* save_scan_results, lines 210-211, and run_scan, lines 282-290: the loop is
\* over, the networks file is removed if it exists and run_scan returns.
RunScanCleanup(id) ==
    /\ tasks[id].pc = "save_results"
    /\ tasks[id].i >= Len(tasks[id].results_data)
    /\ tmp_files' = [ path \in DOMAIN tmp_files \ {TmpPath(id)} |-> tmp_files[path] ]
    /\ task_result' = [task_result EXCEPT ![id] = "returned"]
    /\ tasks' = [tasks EXCEPT ![id].pc = "returned"]
    /\ UNCHANGED <<scans, db_networks, db_results>>
    /\ ConcurrentFrame

\* run_scan, lines 292-301: the except block writes the annotation of its
\* own scans row and run_scan returns.
RunScanExcept(id) ==
    /\ tasks[id].pc = "except"
    /\ scans' = [scans EXCEPT ![id].description = "FAILED: " \o tasks[id].error]
    /\ task_result' = [task_result EXCEPT ![id] = "failed"]
    /\ tasks' = [tasks EXCEPT ![id].pc = "failed"]
    /\ UNCHANGED <<db_networks, db_results, tmp_files>>
    /\ ConcurrentFrame

\* run_scan, lines 295-301: the UPDATE of the except block raises.
RunScanExceptFails(id) ==
    /\ tasks[id].pc = "except"
    /\ task_result' = [task_result EXCEPT ![id] = "raised"]
    /\ tasks' = [tasks EXCEPT ![id].pc = "raised"]
    /\ UNCHANGED <<scans, db_networks, db_results, tmp_files>>
    /\ ConcurrentFrame

NextConcurrent ==
    \E id \in TaskIds :
        \/ RunScanLoad(id)
        \/ RunScanLoadFails(id)
        \/ RunScanSaveNetworks(id)
        \/ RunScanSaveNetworksFails(id)
        \/ RunScanWriteFile(id)
        \/ RunScanWriteFileFails(id)
        \/ RunScanSimulated(id)
        \/ RunScanDelegated(id)
        \/ RunScanDelegatedFails(id)
        \/ RunScanSaveChunk(id)
        \/ RunScanSaveChunkFails(id)
        \/ RunScanCleanup(id)
        \/ RunScanExcept(id)
        \/ RunScanExceptFails(id)

SpecConcurrent == InitConcurrent /\ [][NextConcurrent]_vars

\* The runs that persist something, of the service and of the script, one
\* after the other.
NextRuns ==
    \/ CreateScan
    \/ TaskLoad
    \/ TaskLoadFails
    \/ TaskSaveNetworks
    \/ TaskSaveNetworksFails
    \/ TaskWriteFile
    \/ TaskWriteFileFails
    \/ TaskScanSimulated
    \/ TaskScanDelegated
    \/ TaskScanDelegatedFails
    \/ TaskSaveChunk
    \/ TaskSaveChunkFails
    \/ TaskSaveReturn
    \/ TaskCleanup
    \/ TaskExcept
    \/ TaskExceptFails
    \/ CliRun

SpecRuns == InitApi /\ [][NextRuns]_vars

\* ------------------------------------------------------------ properties
\* The positions at which calculate_availability has returned.
AfterAggregate == {"aggregated", "viz_loaded", "viz_failed", "viz_done"}

\* The number of AddressRecords of postal code P, all of them or only those
\* with reachable = 1.
RecordCount(P, onlyReachable) ==
    Cardinality({ i \in DOMAIN networks_and_ips :
                    /\ networks_and_ips[i].postal_code = P
                    /\ onlyReachable => networks_and_ips[i].reachable = 1 })

\* C1: in the stats mapping returned by calculate_availability, every postal
\* code's reachable_count is the number of emitted AddressRecords of that code
\* with reachable = 1 and its total_count the number of all emitted
\* AddressRecords of that code, summed over the networks mapped to it; every
\* postal code of an emitted record has an entry.
C1_StatsCountRecords ==
    pc \in AfterAggregate =>
        /\ \A P \in DOMAIN postal_code_availability :
              postal_code_availability[P] =
                  <<RecordCount(P, TRUE), RecordCount(P, FALSE)>>
        /\ \A i \in DOMAIN networks_and_ips :
              networks_and_ips[i].postal_code \in DOMAIN postal_code_availability

\* C1 witness: a /24 and a /32 that share postal code 98765, two hosts of the
\* /24 and the host of the /32 reachable: (3, 255).
C1_Witness ==
    /\ pc = "aggregated"
    /\ networks = <<"8.8.8.0/24", "8.8.4.4/32">>
    /\ reachable_ips = {"8.8.8.1", "8.8.8.3", "8.8.4.4"}
    /\ postal_code_availability = ("98765" :> <<3, 255>>)

\* C2 as claimed: load returns no CIDR of a network that is_local classifies
\* local, and the list is as long as the mapping has keys.
C2_ListLengthIsKeyCount ==
    pc = "loaded" =>
        /\ \A k \in DOMAIN networks : ~is_local_network(ip_network(networks[k]).net)
        /\ Len(networks) = Cardinality(DOMAIN postal_codes)

\* C2 amended: load returns no CIDR of a network that is_local classifies
\* local, and the CIDRs of the list are exactly the keys of the mapping, so
\* the list is at least as long as the mapping has keys (a repeated CIDR is
\* appended again and keeps one key).
C2_ListCidrsAreKeys ==
    pc = "loaded" =>
        /\ \A k \in DOMAIN networks : ~is_local_network(ip_network(networks[k]).net)
        /\ Range(networks) = DOMAIN postal_codes
        /\ Len(networks) >= Cardinality(DOMAIN postal_codes)

\* C2 witness: one CIDR retained twice, under two spellings and postal codes.
C2_Witness ==
    /\ pc = "loaded"
    /\ input_csv = << [network |-> "8.8.4.4", postal_code |-> "98765"],
                      [network |-> "8.8.4.4/32", postal_code |-> "NA"] >>
    /\ networks = <<"8.8.4.4/32", "8.8.4.4/32">>
    /\ DOMAIN postal_codes = {"8.8.4.4/32"}

\* Some usable host of the network is private or loopback.
SomeHostLocal(network) ==
    \E i \in 0..(NumHosts(network) - 1) :
        IsPrivate(HostAt(network, i)) \/ IsLoopback(HostAt(network, i))

\* Some usable host of the network is neither private nor loopback.
SomeHostPublic(network) ==
    \E i \in 0..(NumHosts(network) - 1) :
        ~IsPrivate(HostAt(network, i)) /\ ~IsLoopback(HostAt(network, i))

\* The networks the rows of the input table spell.
TableNetworks ==
    { ip_network(input_csv[k].network).net :
        k \in { j \in DOMAIN input_csv : ip_network(input_csv[j].network).ok } }

\* C3: is_local_network(N) is true exactly when some usable host of N is
\* private or loopback, whatever the other hosts of N are.
C3_LocalIffSomeHostLocal ==
    pc = "loaded" =>
        \A n \in TableNetworks : is_local_network(n) <=> SomeHostLocal(n)

\* C3 witness: the loader met a network that mixes public and private hosts
\* (its first host public) and one with public hosts only, dropped the first
\* and kept the second.
C3_Witness ==
    /\ pc = "loaded"
    /\ max_networks = 0
    /\ \E m, p \in TableNetworks :
          /\ SomeHostLocal(m) /\ SomeHostPublic(m)
          /\ ~IsPrivate(HostAt(m, 0))
          /\ ~SomeHostLocal(p)
          /\ networks = <<NetStr(p)>>

\* C4: folding the export that calculate_availability wrote, with
\* load_networks_data and the direct fold, yields the stats mapping that
\* calculate_availability returned for the same inputs.
C4_RoundTrip ==
    pc = "viz_done" => viz_availability = postal_code_availability

\* The rows of the table that name a network, carry a postal code, parse and
\* are not local: the rows a load without cap retains.
ValidRows ==
    { k \in DOMAIN input_csv :
        /\ input_csv[k].network # ""
        /\ input_csv[k].postal_code # ""
        /\ ip_network(input_csv[k].network).ok
        /\ ~SomeHostLocal(ip_network(input_csv[k].network).net) }

\* C5: given a cap N, load returns exactly min(N, number of valid rows)
\* networks: skipped rows (missing field, malformed CIDR, local) do not count
\* toward N.
C5_CapCountsValidRows ==
    (pc = "loaded" /\ max_networks >= 1) =>
        Len(networks) = Min(max_networks, Cardinality(ValidRows))

\* The hosts the simulation examines for a network: index 0 .. min(h, 10) - 1.
Examined(network) == 0..(Min(NumHosts(network), 10) - 1)

\* The networks named by the lines of the networks file.
FileNetworks ==
    { ip_network(networks_file[k]).net :
        k \in { j \in DOMAIN networks_file : ip_network(networks_file[j]).ok } }

\* C6: after a simulated scan, for every network of the file the reachable
\* hosts among those examined are exactly 25% of the examined hosts.
C6_QuarterOfExamined ==
    (pc = "scanned" /\ call.simulation_mode) =>
        \A n \in FileNetworks :
            4 * Cardinality({ i \in Examined(n) :
                                IpStr(HostAt(n, i)) \in reachable_ips })
                = Cardinality(Examined(n))

\* C7: the simulated scan returns the union, over the networks of the file, of
\* the hosts of index i < min(h, 10) with i mod 4 = 0 (so no host of index 10
\* or beyond on account of its own network); for a /24 alone these are its
\* hosts of index 0, 4 and 8.
C7_SimulatedSet ==
    (pc = "scanned" /\ call.simulation_mode) =>
        /\ reachable_ips =
              UNION { { IpStr(HostAt(n, i)) : i \in { j \in Examined(n) : j % 4 = 0 } }
                      : n \in FileNetworks }
        /\ networks_file = <<"8.8.8.0/24">> =>
              reachable_ips = {"8.8.8.1", "8.8.8.5", "8.8.8.9"}

\* C7 witness: a /24 (254 hosts) and a /29 (6 hosts) scanned together.
C7_Witness ==
    /\ pc = "scanned"
    /\ call.simulation_mode
    /\ networks_file = <<"8.8.8.0/24", "8.8.8.8/29">>
    /\ reachable_ips = {"8.8.8.1", "8.8.8.5", "8.8.8.9", "8.8.8.13"}

\* C8: a call of get_zmap_scan_results that passes the networks file only runs
\* the external tool exactly once, with port "80" and bandwidth "10M", and
\* returns the set of the lines the tool printed.
C8_DefaultCallRunsZmap ==
    (pc = "scanned" /\ ~call.given) =>
        /\ Len(zmap_calls) = 1
        /\ zmap_calls[1][1] = "zmap"
        /\ zmap_calls[1][3] = "80"
        /\ zmap_calls[1][5] = "10M"
        /\ reachable_ips = Range(zmap_stdout)

\* C9: every entry of the stats mapping of either aggregation variant has
\* reachable_count <= total_count.
C9_ReachableAtMostTotal ==
    /\ pc \in AfterAggregate =>
          \A P \in DOMAIN postal_code_availability :
              postal_code_availability[P][1] <= postal_code_availability[P][2]
    /\ pc = "viz_done" =>
          \A P \in DOMAIN viz_availability :
              viz_availability[P][1] <= viz_availability[P][2]

\* C9 witness: both variants have folded two networks of one postal code, one
\* of them with a reachable host.
C9_Witness ==
    /\ pc = "viz_done"
    /\ networks = <<"8.8.8.0/24", "8.8.4.4/32">>
    /\ postal_code_availability = ("98765" :> <<3, 255>>)
    /\ viz_availability = ("98765" :> <<3, 255>>)

\* The number of AddressRecords the networks before index k account for.
RECURSIVE Offset(_)
Offset(k) ==
    IF k <= 1 THEN 0
    ELSE Offset(k - 1) + NumHosts(ip_network(networks[k - 1]).net)

\* C10: the AddressRecord list holds one row per usable host per network of
\* the input list, networks in list order and hosts in address order, each
\* row with the network's CIDR, its mapped postal code and reachable = 1
\* exactly when the address is in the reachability set; every occurrence of a
\* /24 in the list accounts for 254 rows.
C10_OneRowPerHost ==
    pc \in AfterAggregate =>
        /\ Len(networks_and_ips) = Offset(Len(networks) + 1)
        /\ \A k \in DOMAIN networks :
              LET n == ip_network(networks[k]).net
              IN  \A i \in 0..(NumHosts(n) - 1) :
                     networks_and_ips[Offset(k) + i + 1] =
                         [network     |-> networks[k],
                          ip          |-> IpStr(HostAt(n, i)),
                          postal_code |-> postal_codes[networks[k]],
                          reachable   |-> IF IpStr(HostAt(n, i)) \in reachable_ips
                                          THEN 1 ELSE 0]
        /\ Cardinality({ i \in DOMAIN networks_and_ips :
                           networks_and_ips[i].network = "8.8.8.0/24" })
              = 254 * Cardinality({ k \in DOMAIN networks :
                                      networks[k] = "8.8.8.0/24" })

\* C10 witness: a /29 followed by a /24, 6 + 254 rows, the first row of the
\* /24 reachable.
C10_Witness ==
    /\ pc = "aggregated"
    /\ networks = <<"8.8.8.8/29", "8.8.8.0/24">>
    /\ Len(networks_and_ips) = 260
    /\ networks_and_ips[7] = [network |-> "8.8.8.0/24", ip |-> "8.8.8.1",
                              postal_code |-> "98765", reachable |-> 1]

\* A row that the loader skips for a missing network, a missing postal code
\* or a network text that does not parse.
Skipped(row) ==
    row.network = "" \/ row.postal_code = "" \/ ~ip_network(row.network).ok

\* The table without its skipped rows.
WithoutSkipped(rows) == SelectSeq(rows, LAMBDA row : ~Skipped(row))

\* C11: a load without cap returns, for a table with rows that miss the
\* network, miss the postal code or spell a network that does not parse,
\* exactly the list and the mapping it returns for the table without those
\* rows; such a row ends no load.
C11_SkippedRowsLeaveNoTrace ==
    (pc = "loaded" /\ max_networks = 0) =>
        LET r == process_input_csv(WithoutSkipped(input_csv), 0)
        IN  /\ networks = r.networks
            /\ postal_codes = r.postal_codes

\* C11 witness: a load without cap of a skipped row followed by a retained one.
C11_Witness ==
    /\ pc = "loaded"
    /\ max_networks = 0
    /\ Len(input_csv) = 2
    /\ Skipped(input_csv[1])
    /\ input_csv[1].postal_code = "" \/ ~ip_network(input_csv[1].network).ok
    /\ networks = <<"8.8.8.8/29">>

\* C12: every CIDR of the list that load returns is, in the same spelling, a
\* key of the mapping it returns, so that calculate_availability on the output
\* of load raises no KeyError.
C12_LoadedCidrsAreKeys ==
    /\ pc = "loaded" => \A k \in DOMAIN networks : networks[k] \in DOMAIN postal_codes
    /\ pc = "scanned" =>
          calculate_availability(networks, postal_codes, reachable_ips).raised = ""

\* C12 witness: a row that spells its network without prefix length was
\* loaded under the normalised spelling and aggregated.
C12_Witness ==
    /\ pc = "aggregated"
    /\ \E k \in DOMAIN input_csv : input_csv[k].network = "8.8.4.4"
    /\ "8.8.4.4/32" \in Range(networks)
    /\ postal_codes["8.8.4.4/32"] \in DOMAIN postal_code_availability

\* C13: when some network of the list given to calculate_availability is no
\* key of the mapping, the call ends in an exception that the function does
\* not catch: it returns no stats mapping and does not write the export.
C13_LookupMissAborts ==
    [][ (pc = "scanned" /\ \E k \in DOMAIN networks :
                               networks[k] \notin DOMAIN postal_codes)
        => /\ pc' \in {"agg_key_error", "agg_value_error"}
           /\ postal_code_availability' = postal_code_availability
           /\ networks_and_ips' = networks_and_ips
           /\ export_csv' = export_csv ]_vars

\* C13 witness: the first network of the list has a key, the second has none;
\* the call ended in KeyError and there is no export.
C13_Witness ==
    /\ pc = "agg_key_error"
    /\ Len(networks) = 2
    /\ networks[1] \in DOMAIN postal_codes
    /\ networks[2] \notin DOMAIN postal_codes
    /\ postal_code_availability = EmptyDict
    /\ export_csv = NoFile

\* The postal codes of the dict whose total_count is 0.
ZeroTotalCodes == { stats[i].postal_code : i \in { j \in DOMAIN stats : stats[j].total = 0 } }

\* C14: no renderer ends in a division error for a postal code whose
\* total_count is 0: it leaves such a code out or draws it as 0%.
C14_ZeroTotalIsGuarded ==
    (pc \in {"rendered", "render_raised"} /\ ZeroTotalCodes # {}) =>
        /\ rendered.raised = ""
        /\ \A i \in DOMAIN rendered.bars :
              rendered.bars[i].postal_code \in ZeroTotalCodes =>
                  rendered.bars[i].reachable = 0

\* The rows of the file with postal code cell P, all of them or only those
\* with flag 1.
FileRowCount(P, onlyReachable) ==
    Cardinality({ i \in DOMAIN export_csv.rows :
                    /\ export_csv.rows[i].postal_code = P
                    /\ onlyReachable => export_csv.rows[i].reachable = "1" })

\* C15: the direct fold of a persisted record set gives every postal code
\* total_count = the number of its rows and reachable_count = the sum of
\* their flags; the rows whose postal code is null are removed first and
\* give no entry; three rows of 98765 with flags 1, 0, 1 give (2, 3).
C15_FoldCountsRows ==
    pc = "viz_done" =>
        /\ DOMAIN viz_availability =
              { export_csv.rows[i].postal_code : i \in DOMAIN export_csv.rows }
                  \ NaTokens
        /\ \A P \in DOMAIN viz_availability :
              viz_availability[P] = <<FileRowCount(P, TRUE), FileRowCount(P, FALSE)>>
        /\ \A i \in DOMAIN df : ~df[i].postal_code.isnull
        /\ LET rows98765 == SelectSeq(export_csv.rows,
                                      LAMBDA row : row.postal_code = "98765")
           IN  ( /\ Len(rows98765) = 3
                 /\ rows98765[1].reachable = "1"
                 /\ rows98765[2].reachable = "0"
                 /\ rows98765[3].reachable = "1" )
               => viz_availability["98765"] = <<2, 3>>

\* C15 witness: three rows of 98765 with flags 1, 0, 1 and a row without
\* postal code among them, folded to the one entry (2, 3).
C15_Witness ==
    /\ pc = "viz_done"
    /\ Len(export_csv.rows) = 4
    /\ export_csv.rows[1].postal_code = "98765" /\ export_csv.rows[1].reachable = "1"
    /\ export_csv.rows[2].postal_code = ""      /\ export_csv.rows[2].reachable = "1"
    /\ export_csv.rows[3].postal_code = "98765" /\ export_csv.rows[3].reachable = "0"
    /\ export_csv.rows[4].postal_code = "98765" /\ export_csv.rows[4].reachable = "1"
    /\ Len(df) = 3
    /\ viz_availability = ("98765" :> <<2, 3>>)

\* C18: in delegated mode a nonzero exit status of the external tool is
\* raised to the caller after exactly one run of the tool and no set is
\* returned; in either mode a missing networks file raises file-not-found
\* before the tool is run or anything is simulated.
C18_ScanFailuresRaise ==
    /\ pc = "scan_failed" =>
          /\ ~call.simulation_mode
          /\ Len(zmap_calls) = 1
          /\ reachable_ips = {}
    /\ ~networks_file_exists =>
          /\ pc \in {"written", "scan_missing"}
          /\ zmap_calls = <<>>
          /\ reachable_ips = {}
    /\ pc = "scan_missing" => ~networks_file_exists

\* C18 witness: the tool was run once on a file of one /24 and exited with a
\* nonzero status.
C18_Witness ==
    /\ pc = "scan_failed"
    /\ networks_file = <<"8.8.8.0/24">>
    /\ Len(zmap_calls) = 1
    /\ zmap_calls[1][1] = "zmap"

\* C16: the response of GET /scans/{id}/availability holds stats rows of scan
\* id only, and is 404 whenever scan id has no result rows (an id that was
\* never created among them), whatever other scans have persisted.
C16_AvailabilityOfThatScanOnly ==
    response.endpoint = "GET /scans/{scan_id}/availability" =>
        /\ \A row \in response.results : row.scan_id = response.scan_id
        /\ (\A i \in DOMAIN db_results : db_results[i].scan_id # response.scan_id)
              => response.status = 404

\* The annotations the except block of run_scan writes.
FailedDescriptions ==
    { "FAILED: " \o message :
        message \in { "No such file or directory: missing.csv", "database error",
                      "No space left on device",
                      "Command zmap returned non-zero exit status 1" } }

\* C17: a failure raised in the background task of a scan (by the load, the
\* network persistence, the write of the networks file, the reachability scan
\* or the result persistence) is caught in the task and recorded as the
\* annotation FAILED: <message> on the scan's row; it never leaves run_scan.
C17_TaskFailureIsRecorded ==
    \A id \in DOMAIN task_result :
        /\ task_result[id] # "raised"
        /\ task_result[id] = "failed" => scans[id].description \in FailedDescriptions
        /\ task_result[id] = "returned" => scans[id].description = ""

\* What every step leaves alone in the database: the rows of networks and
\* scan_results that exist stay as they are and where they are, the rows
\* added carry the scan id of the running task, and the scans row of every
\* other scan stays as it is.
DbRowsStay ==
    /\ IsPrefix(db_networks, db_networks')
    /\ IsPrefix(db_results, db_results')
    /\ \A k \in (Len(db_networks) + 1)..Len(db_networks') :
          db_networks'[k].scan_id = task.scan_id
    /\ \A k \in (Len(db_results) + 1)..Len(db_results') :
          db_results'[k].scan_id = task.scan_id
    /\ \A id \in DOMAIN scans : id # task.scan_id => scans'[id] = scans[id]

\* C19 as claimed: what an earlier run persisted, as a file or as database
\* rows, is unchanged by every later run.
C19_EarlierOutputsUnchanged ==
    [][ /\ DbRowsStay
        /\ export_csv # NoFile => export_csv' = export_csv ]_vars

\* C19 amended: the database rows an earlier scan persisted are unchanged by
\* every later run, which only adds rows under its own scan id; the export
\* file holds the AddressRecords of the last run of the script that wrote it.
C19_DbRowsOfEarlierRunsStay ==
    [][ /\ DbRowsStay
        /\ export_csv' # export_csv => export_csv' = to_csv(networks_and_ips') ]_vars

\* C19 witness: two scans have persisted their result rows, the rows of the
\* first before those of the second, after a run of the script.
C19_Witness ==
    /\ pc = "api_idle"
    /\ export_csv # NoFile
    /\ Len(db_results) = 14
    /\ \A k \in 1..7 : db_results[k].scan_id = 1
    /\ \A k \in 8..14 : db_results[k].scan_id = 2

\* The rows of scan_results of the scan whose task is running.
TaskRows == SelectSeq(db_results, LAMBDA row : row.scan_id = task.scan_id)

\* C20: save_scan_results writes the rows in consecutive chunks of at most
\* 5000, each committed on its own: when the write of a chunk fails, the
\* chunks before it stay persisted, no row of it or of a later chunk is
\* persisted and the error goes to the caller; when no chunk fails, every
\* row is persisted once for the scan.
C20_ChunksCommitAlone ==
    /\ [](pc \in {"task_save_results", "task_except", "task_cleanup"} =>
            /\ task.i % batch_size = 0
            /\ TaskRows = BatchValues(task.scan_id,
                              SubSeq(task.results_data, 1,
                                     Min(task.i, Len(task.results_data))))
            /\ pc = "task_cleanup" => Len(TaskRows) = Len(task.results_data))
    /\ [][ /\ IsPrefix(db_results, db_results')
           /\ Len(db_results') - Len(db_results) <= batch_size
           /\ (pc = "task_save_results" /\ pc' = "task_except")
                 => db_results' = db_results ]_vars

\* C20 witness: of three chunks the first is committed and the second failed.
C20_Witness ==
    /\ pc = "task_except"
    /\ Len(task.results_data) = 2 * batch_size + 1
    /\ task.i = batch_size
    /\ Len(TaskRows) = batch_size
    /\ task.error = "database error"

\* The rows of the table that the load retained: the loop reads the table
\* from its first row and appends one list element per valid row, so these
\* are the first Len(networks) valid rows.
RetainedRows ==
    { k \in ValidRows :
        Cardinality({ j \in ValidRows : j <= k }) <= Len(networks) }

\* The retained rows that spell the network with CIDR c.
RowsOf(c) ==
    { k \in RetainedRows : NetStr(ip_network(input_csv[k].network).net) = c }

\* C22: when several rows name one CIDR with different postal codes, the load
\* ends normally and maps the CIDR to the postal code of the last of these
\* rows; calculate_availability gives every AddressRecord of the CIDR that
\* postal code, and counts no host for a postal code that the mapping does
\* not hold.
C22_LastPostalCodeWins ==
    /\ pc = "loaded" =>
          \A c \in DOMAIN postal_codes :
              /\ RowsOf(c) # {}
              /\ \E last \in RowsOf(c) :
                    /\ \A k \in RowsOf(c) : k <= last
                    /\ postal_codes[c] = input_csv[last].postal_code
    /\ pc \in AfterAggregate =>
          /\ \A i \in DOMAIN networks_and_ips :
                networks_and_ips[i].postal_code =
                    postal_codes[networks_and_ips[i].network]
          /\ \A P \in DOMAIN postal_code_availability :
                \E c \in DOMAIN postal_codes : postal_codes[c] = P

\* C22 witness: 8.8.4.4/32 named twice, with 98765 and then with NA; both
\* occurrences are counted for NA and nothing for 98765.
C22_Witness ==
    /\ pc = "aggregated"
    /\ input_csv = << [network |-> "8.8.4.4", postal_code |-> "98765"],
                      [network |-> "8.8.4.4/32", postal_code |-> "NA"] >>
    /\ postal_codes = ("8.8.4.4/32" :> "NA")
    /\ Len(networks_and_ips) = 2
    /\ DOMAIN postal_code_availability = {"NA"}
    /\ postal_code_availability["NA"][2] = 2

\* C24: the set a delegated scan returns holds only non-empty address strings
\* that the external tool printed, and is the empty set when the tool printed
\* no address.
C24_DelegatedSetHoldsAddresses ==
    (pc = "scanned" /\ ~call.simulation_mode) =>
        /\ "" \notin reachable_ips
        /\ reachable_ips \subseteq Range(zmap_stdout)
        /\ zmap_stdout = <<>> => reachable_ips = {}

\* C25: every postal code that is a key of the stats mapping of either
\* aggregation variant has total_count >= 1, so that the percentage of an
\* entry of aggregator output is defined.
C25_TotalAtLeastOne ==
    /\ pc \in AfterAggregate =>
          \A P \in DOMAIN postal_code_availability :
              postal_code_availability[P][2] >= 1
    /\ pc = "viz_done" =>
          \A P \in DOMAIN viz_availability : viz_availability[P][2] >= 1

\* C25 witness: both variants hold an entry of a single host that did not
\* respond: (0, 1).
C25_Witness ==
    /\ pc = "viz_done"
    /\ networks = <<"8.8.4.4/32">>
    /\ "8.8.4.4" \notin reachable_ips
    /\ postal_code_availability = ("98765" :> <<0, 1>>)
    /\ viz_availability = ("98765" :> <<0, 1>>)

\* C23: when run_scan has ended for a scan, by returning or by raising, on
\* the success path or on a failure path behind the write of the networks
\* file, the file /tmp/networks_<scan_id>.txt of the scan does not exist.
C23_TempFileIsRemoved ==
    \A id \in DOMAIN task_result :
        task_result[id] # "running" => id \notin DOMAIN tmp_files

\* What the task of scan id gets from process_input_csv for its own request.
OwnLoad(id) == process_input_csv(InputFiles[tasks[id].input_file], 0)

\* The networks rows scan id persists when its task runs alone.
AloneNetworks(id) ==
    LET r == OwnLoad(id)
    IN  [ k \in DOMAIN r.networks |->
            [scan_id |-> id, network |-> r.networks[k],
             postal_code |-> r.postal_codes[r.networks[k]]] ]

\* The scan_results rows scan id persists when its task runs alone and the
\* tool, if it is asked, prints what it printed for this task; the network of
\* a row is named by its CIDR, the network_id being the next of a sequence
\* that both tasks draw from.
AloneResults(id) ==
    LET r     == OwnLoad(id)
        reach == IF tasks[id].simulate
                 THEN SimulateLines(FileLines(r.networks), 1, {})
                 ELSE tasks[id].reachable_ips
        rows  == BuildResults(r.networks, r.postal_codes,
                              NetworkMap(r.networks, 0, 1, EmptyDict), reach, 1)
    IN  [ k \in DOMAIN rows |->
            [scan_id |-> id, network |-> r.networks[rows[k].network_id],
             ip |-> rows[k].ip, postal_code |-> rows[k].postal_code,
             reachable |-> rows[k].reachable] ]

\* The networks rows and the scan_results rows of scan id in the database.
PersistedNetworks(id) == SelectSeq(db_networks, LAMBDA row : row.scan_id = id)

PersistedResults(id) ==
    LET rows == SelectSeq(db_results, LAMBDA row : row.scan_id = id)
    IN  [ k \in DOMAIN rows |->
            [scan_id |-> id, network |-> db_networks[rows[k].network_id].network,
             ip |-> rows[k].ip, postal_code |-> rows[k].postal_code,
             reachable |-> rows[k].reachable] ]

\* C21: in every interleaving of two background tasks with distinct scan
\* identifiers, the file at the path of a task is there when the task is
\* about to read it and holds the list of that task for as long as it is
\* there, every scan_results row of a task points at a
\* networks row of the same scan, and the rows persisted for each scan are
\* the rows it persists running alone (none of them or all of them while the
\* task runs or after it failed, all of them once it returned), network_id
\* aside.
C21_TasksDoNotInterfere ==
    /\ tasks # EmptyDict
    => \A id \in TaskIds :
            /\ tasks[id].pc = "scan" => TmpPath(id) \in DOMAIN tmp_files
            /\ TmpPath(id) \in DOMAIN tmp_files
                  => tmp_files[TmpPath(id)] = tasks[id].networks
            /\ \A k \in DOMAIN db_results :
                  db_results[k].scan_id = id
                  => /\ db_results[k].network_id \in DOMAIN db_networks
                     /\ db_networks[db_results[k].network_id].scan_id = id
            /\ IF tasks[id].input_file \in DOMAIN InputFiles
               THEN /\ PersistedNetworks(id) \in {<<>>, AloneNetworks(id)}
                    /\ PersistedResults(id) \in {<<>>, AloneResults(id)}
                    /\ tasks[id].pc = "returned"
                          => /\ PersistedNetworks(id) = AloneNetworks(id)
                             /\ PersistedResults(id) = AloneResults(id)
               ELSE /\ PersistedNetworks(id) = <<>>
                    /\ PersistedResults(id) = <<>>

\* Both tasks returned, from different input files, and their statements
\* were interleaved: scan 2 saved its networks first, scan 1 its results first.
C21_Witness ==
    /\ tasks # EmptyDict
    /\ \A id \in TaskIds : tasks[id].pc = "returned"
    /\ tasks[1].input_file # tasks[2].input_file
    /\ db_networks # <<>> /\ db_networks[1].scan_id = 2
    /\ db_results # <<>> /\ db_results[1].scan_id = 1
    /\ \E k \in DOMAIN db_results : db_results[k].scan_id = 2

====
